---- MODULE Spec2Model ----
(***************************************************************************)
(* Product variant generation (generate_variants.ts).                      *)
(*                                                                         *)
(* generateCombinations folds a product's options into a list of flat      *)
(* variant records; main reads a catalogue, expands every product and      *)
(* writes the variants.  Spec steps through the reduce of one product      *)
(* drawn from a bounded set; SpecMain steps through one run of main.       *)
(*                                                                         *)
(* JavaScript values are tagged records so that strings, numbers,          *)
(* booleans, undefined and UUIDs can be compared with one another.  A      *)
(* JavaScript object is a function from its keys to values; a missing key  *)
(* reads as Undefined.                                                     *)
(***************************************************************************)
EXTENDS Integers, Sequences, FiniteSets, TLC

VARIABLES product, combinations, k, pc, uuidCounter,
          argv, inputFile, outputWritable, mainPc, productVariants,
          outputFile, errorLog, infoLog, thrown

coreVars == <<product, combinations, k, pc, uuidCounter>>
mainVars == <<argv, inputFile, outputWritable, mainPc, productVariants,
              outputFile, errorLog, infoLog, thrown>>
vars == <<product, combinations, k, pc, uuidCounter,
          argv, inputFile, outputWritable, mainPc, productVariants,
          outputFile, errorLog, infoLog, thrown>>

(* Largest number of options of a product.                                 *)
MaxOptions == 3

-----------------------------------------------------------------------------
(* JavaScript values                                                       *)

Undefined == [t |-> "undefined", s |-> "", n |-> 0]
Str(s) == [t |-> "string", s |-> s, n |-> 0]
Num(n) == [t |-> "number", s |-> "", n |-> n]
Bool(b) == [t |-> "boolean", s |-> "", n |-> IF b THEN 1 ELSE 0]
Uuid(n) == [t |-> "uuid", s |-> "", n |-> n]

EmptyObject == [x \in {} |-> Undefined]

(* obj[key]: a missing key reads as undefined.                             *)
Get(obj, key) == IF key \in DOMAIN obj THEN obj[key] ELSE Undefined

(* a ?? b                                                                  *)
Coalesce(a, b) == IF a = Undefined THEN b ELSE a

(* a > b on the values of the model: true only for two numbers (undefined  *)
(* and a non-numeric string convert to NaN, and NaN compares false).       *)
Gt(a, b) == a.t = "number" /\ b.t = "number" /\ a.n > b.n

(* String.prototype.toLowerCase on the names and keys of the model.        *)
LowerCased ==
    ("Color" :> "color") @@ ("COLOR" :> "color") @@ ("Finish" :> "finish") @@
    ("Material" :> "material") @@ ("Coating" :> "coating") @@
    ("Size" :> "size") @@ ("Embossed" :> "embossed") @@
    ("Description" :> "description")

ToLower(s) == IF s \in DOMAIN LowerCased THEN LowerCased[s] ELSE s

-----------------------------------------------------------------------------
(* Input data: values, options, products                                   *)

(* A value of an option: a bare string or an OptionValue object.           *)
Bare(s) == [isObject |-> FALSE, str |-> s, props |-> EmptyObject]
Override(props) == [isObject |-> TRUE, str |-> "", props |-> props]

WrapPrint ==
    Override(("name" :> Str("360 wrap print")) @@ ("price" :> Num(50)) @@
             ("description" :> Str("Full wrap")) @@ ("embossed" :> Bool(TRUE)))
OneSided ==
    Override(("name" :> Str("One-sided printing")) @@ ("price" :> Num(45)) @@
             ("description" :> Str("One side")))
Metal == Override(("name" :> Str("metal")) @@ ("price" :> Num(70)))
Plastic ==
    Override(("name" :> Str("plastic")) @@ ("price" :> Num(65)) @@
             ("description" :> Str("Plastic body")) @@ ("embossed" :> Bool(FALSE)))
Gloss ==
    Override(("name" :> Str("Gloss")) @@ ("Embossed" :> Bool(TRUE)) @@
             ("Description" :> Str("Glossy")))
Tint == Override(("name" :> Str("Tint")) @@ ("color" :> Str("Gold")))

OptionPool ==
    { [name |-> "Color", values |-> <<Bare("Red"), Bare("Blue")>>],
      [name |-> "Finish", values |-> <<WrapPrint, OneSided>>],
      [name |-> "Material", values |-> <<Metal, Plastic, Bare("wood")>>],
      [name |-> "COLOR", values |-> <<Bare("Green")>>],
      [name |-> "Coating", values |-> <<Gloss, Tint>>],
      [name |-> "Size", values |-> <<>>] }

(* The option lists of up to MaxOptions options, each option of the pool   *)
(* listed at most once.                                                    *)
OptionLists ==
    UNION { { os \in [1..n -> OptionPool] :
                \A i, j \in 1..n : os[i] = os[j] => i = j } :
            n \in 0..MaxOptions }

Products ==
    { [id |-> 1, name |-> "Test Product",
       description |-> "Test product description", options |-> os] :
      os \in OptionLists }

-----------------------------------------------------------------------------
(* generateCombinations                                                    *)

OptionNameUnsanitised(option) == option.name

(* const optionName = option.name.toLowerCase()                            *)
OptionName(option) == ToLower(option.name)

PriceWinsLastWrite(valuePrice, variantPrice) == TRUE

(* variant.price === undefined || value['price'] > variant.price           *)
PriceWins(valuePrice, variantPrice) ==
    variantPrice = Undefined \/ Gt(valuePrice, variantPrice)

(* The keys the forEach writes: every key of the value, lower-cased,       *)
(* except name and price.                                                  *)
SanitisedKeys(value) ==
    { ToLower(key) : key \in DOMAIN value.props } \ {"name", "price"}

(* const variant = { ...combination, id, parentProductId, ... }            *)
BaseVariant(prod, combination, uuid) ==
    ("id" :> uuid) @@
    ("parentProductId" :> Num(prod.id)) @@
    ("parentProductName" :> Str(prod.name)) @@
    ("description" :>
        Coalesce(Get(combination, "description"), Str(prod.description))) @@
    ("price" :> Get(combination, "price")) @@
    combination

DescriptionKeptFromCombination(variant, value) ==
    [key \in DOMAIN variant \cup SanitisedKeys(value) |->
        IF key \in SanitisedKeys(value) /\ key # "description"
        THEN Get(value.props, key) ELSE variant[key]]

(* Object.keys(value).forEach: variant[sanitisedKey] = value[sanitisedKey] *)
(* Every key with the same lower-cased form writes the same value, the one *)
(* the object holds under the lower-cased key, so the order of the keys    *)
(* does not matter.                                                        *)
CopyAttributes(variant, value) ==
    [key \in DOMAIN variant \cup SanitisedKeys(value) |->
        IF key \in SanitisedKeys(value)
        THEN Get(value.props, key) ELSE variant[key]]

MakeVariantAllValues(prod, option, combination, value, uuid) ==
    LET base == BaseVariant(prod, combination, uuid)
        others == UNION { SanitisedKeys(option.values[i]) :
                          i \in 1..Len(option.values) }
        named == (OptionName(option) :>
                    IF value.isObject THEN Get(value.props, "name")
                    ELSE Str(value.str)) @@ base
    IN  [key \in DOMAIN named \cup others |->
            IF key \in SanitisedKeys(value) THEN Get(value.props, key)
            ELSE IF key \in DOMAIN named THEN named[key] ELSE Bool(FALSE)]

(* The body of option.values.map((value) => ...)                           *)
MakeVariant(prod, option, combination, value, uuid) ==
    LET base == BaseVariant(prod, combination, uuid)
    IN  IF ~value.isObject
        THEN (OptionName(option) :> Str(value.str)) @@ base
        ELSE LET named == (OptionName(option) :> Get(value.props, "name")) @@ base
                 priced ==
                    IF PriceWins(Get(value.props, "price"), named["price"])
                    THEN ("price" :> Get(value.props, "price")) @@ named
                    ELSE named
             IN  CopyAttributes(priced, value)

(* option.values.map over one combination.  An entry of the accumulator is *)
(* the variant object v together with path, the positions of the values    *)
(* chosen so far (a history of the iteration, not a field of the object).  *)
MapValues(prod, option, combos, ci, ctr) ==
    LET nv == Len(option.values)
    IN  [vi \in 1..nv |->
            [v |-> MakeVariant(prod, option, combos[ci].v, option.values[vi],
                               Uuid(ctr + (ci - 1) * nv + vi)),
             path |-> Append(combos[ci].path, vi)]]

RECURSIVE FlatMapFrom(_, _, _, _, _)
FlatMapFrom(prod, option, combos, ci, ctr) ==
    IF ci > Len(combos) THEN <<>>
    ELSE MapValues(prod, option, combos, ci, ctr) \o
         FlatMapFrom(prod, option, combos, ci + 1, ctr)

FlatMapValuesOutermost(prod, option, combos, ctr) ==
    LET nc == Len(combos)
        nv == Len(option.values)
    IN  [r \in 1..(nc * nv) |->
            LET vi == ((r - 1) \div nc) + 1
                ci == ((r - 1) % nc) + 1
            IN  [v |-> MakeVariant(prod, option, combos[ci].v,
                                   option.values[vi], Uuid(ctr + r)),
                 path |-> Append(combos[ci].path, vi)]]

(* combinations.flatMap((combination) => option.values.map(...))           *)
FlatMap(prod, option, combos, ctr) == FlatMapFrom(prod, option, combos, 1, ctr)

InitialAccumulatorEmpty == <<>>

(* [{} as OptionValue], the initial value of the reduce                    *)
InitialAccumulator == <<[v |-> EmptyObject, path |-> <<>>]>>

(* product.options.reduce(...) from option i on; ctr counts the UUIDs      *)
(* drawn so far.                                                           *)
RECURSIVE ReduceFrom(_, _, _, _)
ReduceFrom(prod, i, combos, ctr) ==
    IF i > Len(prod.options) THEN [combos |-> combos, ctr |-> ctr]
    ELSE LET next == FlatMap(prod, prod.options[i], combos, ctr)
         IN  ReduceFrom(prod, i + 1, next, ctr + Len(next))

GenerateCombinations(prod, ctr) == ReduceFrom(prod, 1, InitialAccumulator, ctr)

-----------------------------------------------------------------------------
(* Spec: the reduce of generateCombinations, one option per step           *)

MainIdle ==
    /\ argv = [help |-> FALSE, in |-> "", out |-> ""]
    /\ inputFile = [kind |-> "missing", products |-> <<>>]
    /\ outputWritable = FALSE
    /\ mainPc = "idle"
    /\ productVariants = <<>>
    /\ outputFile = <<>>
    /\ errorLog = <<>>
    /\ infoLog = <<>>
    /\ thrown = "none"

Init ==
    /\ product \in Products
    /\ combinations = InitialAccumulator
    /\ k = 1
    /\ pc = "reduce"
    /\ uuidCounter = 0
    /\ MainIdle

(* One call of the reducer: the accumulator is replaced by the flatMap.    *)
ReduceStep ==
    /\ pc = "reduce"
    /\ k <= Len(product.options)
    /\ combinations' = FlatMap(product, product.options[k], combinations, uuidCounter)
    /\ uuidCounter' = uuidCounter + Len(combinations')
    /\ k' = k + 1
    /\ UNCHANGED <<product, pc>>
    /\ UNCHANGED mainVars

(* The reduce is over: the accumulator is what generateCombinations        *)
(* returns.                                                                *)
Return ==
    /\ pc = "reduce"
    /\ k > Len(product.options)
    /\ pc' = "done"
    /\ UNCHANGED <<product, combinations, k, uuidCounter>>
    /\ UNCHANGED mainVars

Next == ReduceStep \/ Return

Spec == Init /\ [][Next]_vars

-----------------------------------------------------------------------------
(* SpecMain: one run of main                                               *)

(* argv?.in ?? './data/input-data.json', argv?.out ?? './results',         *)
(* argv?.name ?? 'generated-variants-with-base-data': an option given as   *)
(* the empty string stays empty.                                           *)
INPUT_FILE_PATH == argv.in
OUTPUT_DIR == argv.out
OUTPUT_FILE_NAME == "generated-variants-with-base-data"

OptionNamed(n) == CHOOSE o \in OptionPool : o.name = n

TestProduct(id, names) ==
    [id |-> id, name |-> "Test Product",
     description |-> "Test product description",
     options |-> [i \in 1..Len(names) |-> OptionNamed(names[i])]]

(* The catalogues the input file may hold.                                 *)
Catalogues ==
    { <<>>,
      <<TestProduct(1, <<"Color", "Finish">>)>>,
      <<TestProduct(1, <<"Color", "Finish">>),
        TestProduct(2, <<"Color", "Finish", "Material">>)>> }

(* What readFileSync and JSON.parse find at the input path.                *)
InputFiles ==
    { [kind |-> kd, products |-> <<>>] :
        kd \in {"missing", "unreadable", "malformed", "wrongShape"} }
    \cup { [kind |-> "ok", products |-> c] : c \in Catalogues }

(* inputJSON.products.flatMap((product) => generateCombinations(product))  *)
RECURSIVE FlatMapProducts(_, _, _)
FlatMapProducts(products, i, ctr) ==
    IF i > Len(products) THEN <<>>
    ELSE LET r == GenerateCombinations(products[i], ctr)
         IN  [j \in 1..Len(r.combos) |-> r.combos[j].v] \o
             FlatMapProducts(products, i + 1, r.ctr)

CoreIdle ==
    /\ product = TestProduct(1, <<>>)
    /\ combinations = InitialAccumulator
    /\ k = 1
    /\ pc = "idle"
    /\ uuidCounter = 0

InitMain ==
    /\ argv \in [help : BOOLEAN, in : {"", "./data/input-data.json"},
                 out : {"", "./results"}]
    /\ inputFile \in InputFiles
    /\ outputWritable \in BOOLEAN
    /\ mainPc = "start"
    /\ productVariants = <<>>
    /\ outputFile = <<>>
    /\ errorLog = <<>>
    /\ infoLog = <<>>
    /\ thrown = "none"
    /\ CoreIdle

(* if (argv?.help || argv?.h) { printHelp(); process.exit(); }             *)
MainHelp ==
    /\ mainPc = "start"
    /\ argv.help
    /\ infoLog' = Append(infoLog, "help")
    /\ mainPc' = "exited"
    /\ UNCHANGED <<argv, inputFile, outputWritable, productVariants,
                   outputFile, errorLog, thrown>>
    /\ UNCHANGED coreVars

(* if (!INPUT_FILE_PATH || !OUTPUT_DIR) console.error(...): the message is *)
(* logged and the run goes on into the try block.                          *)
MainCheckConfig ==
    /\ mainPc = "start"
    /\ ~argv.help
    /\ errorLog' = IF INPUT_FILE_PATH = "" \/ OUTPUT_DIR = ""
                   THEN Append(errorLog, "Incorrect configuration")
                   ELSE errorLog
    /\ mainPc' = "read"
    /\ UNCHANGED <<argv, inputFile, outputWritable, productVariants,
                   outputFile, infoLog, thrown>>
    /\ UNCHANGED coreVars

(* JSON.parse(fs.readFileSync(INPUT_FILE_PATH, 'utf-8')): readFileSync     *)
(* throws for an empty path, a missing or an unreadable file, JSON.parse   *)
(* for text that is not JSON.                                              *)
MainRead ==
    /\ mainPc = "read"
    /\ IF INPUT_FILE_PATH = "" \/ inputFile.kind \in {"missing", "unreadable"}
       THEN thrown' = "readFileSync" /\ mainPc' = "catch"
       ELSE IF inputFile.kind = "malformed"
       THEN thrown' = "SyntaxError" /\ mainPc' = "catch"
       ELSE thrown' = thrown /\ mainPc' = "expand"
    /\ UNCHANGED <<argv, inputFile, outputWritable, productVariants,
                   outputFile, errorLog, infoLog>>
    /\ UNCHANGED coreVars

(* inputJSON.products.flatMap(...): a TypeError when the parsed JSON is    *)
(* not of the shape {products: [...]}.                                     *)
MainExpand ==
    /\ mainPc = "expand"
    /\ IF inputFile.kind = "wrongShape"
       THEN /\ thrown' = "TypeError"
            /\ mainPc' = "catch"
            /\ UNCHANGED productVariants
       ELSE /\ productVariants' = FlatMapProducts(inputFile.products, 1, 0)
            /\ mainPc' = "write"
            /\ UNCHANGED thrown
    /\ UNCHANGED <<argv, inputFile, outputWritable, outputFile, errorLog, infoLog>>
    /\ UNCHANGED coreVars

(* fs.writeFileSync(`${OUTPUT_DIR}/${OUTPUT_FILE_NAME}.json`, ...)         *)
MainWrite ==
    /\ mainPc = "write"
    /\ IF outputWritable
       THEN /\ outputFile' = Append(outputFile,
                                    [dir |-> OUTPUT_DIR, name |-> OUTPUT_FILE_NAME,
                                     variants |-> productVariants])
            /\ mainPc' = "report"
            /\ UNCHANGED thrown
       ELSE /\ thrown' = "writeFileSync"
            /\ mainPc' = "catch"
            /\ UNCHANGED outputFile
    /\ UNCHANGED <<argv, inputFile, outputWritable, productVariants,
                   errorLog, infoLog>>
    /\ UNCHANGED coreVars

(* console.info(`Script ran successfully, ...`)                            *)
MainReport ==
    /\ mainPc = "report"
    /\ infoLog' = Append(infoLog, "Script ran successfully")
    /\ mainPc' = "returned"
    /\ UNCHANGED <<argv, inputFile, outputWritable, productVariants,
                   outputFile, errorLog, thrown>>
    /\ UNCHANGED coreVars

(* catch (err) { console.error(`Failed to run. ...`) }                     *)
MainCatch ==
    /\ mainPc = "catch"
    /\ errorLog' = Append(errorLog, "Failed to run")
    /\ thrown' = "none"
    /\ mainPc' = "returned"
    /\ UNCHANGED <<argv, inputFile, outputWritable, productVariants,
                   outputFile, infoLog>>
    /\ UNCHANGED coreVars

NextMain ==
    \/ MainHelp
    \/ MainCheckConfig
    \/ MainRead
    \/ MainExpand
    \/ MainWrite
    \/ MainReport
    \/ MainCatch

SpecMain == InitMain /\ [][NextMain]_vars

-----------------------------------------------------------------------------
(* Vocabulary of the properties of generateCombinations                    *)

Done == pc = "done"

(* The sequence generateCombinations returned: the final accumulator.      *)
result == combinations
NumOptions == Len(product.options)
ValueCount(j) == Len(product.options[j].values)

(* The key of option j's field: the option's name in lower case.           *)
FieldOf(j) == ToLower(product.options[j].name)

(* c(j) * ... * c(n), the number of combinations of options j..n           *)
RECURSIVE CountFrom(_)
CountFrom(j) == IF j > NumOptions THEN 1 ELSE ValueCount(j) * CountFrom(j + 1)

(* The value of option j on the path of entry e, and its label.            *)
Chosen(e, j) == product.options[j].values[e.path[j]]
Label(value) == IF value.isObject THEN Get(value.props, "name") ELSE Str(value.str)

ObjectsOnPath(e) == { j \in 1..NumOptions : Chosen(e, j).isObject }

(* The options on the path whose value has a key that lower-cases to key.  *)
Carriers(e, key) ==
    { j \in ObjectsOnPath(e) :
        \E orig \in DOMAIN Chosen(e, j).props : ToLower(orig) = key }

Max(S) == CHOOSE x \in S : \A y \in S : y <= x
Min(S) == CHOOSE x \in S : \A y \in S : x <= y

BaseKeys == {"id", "parentProductId", "parentProductName", "description", "price"}
OptionKeys == { FieldOf(j) : j \in 1..NumOptions }

(* Nothing written after option j's label targets the same key: not the    *)
(* chosen value's own attributes, no later option's name, no later chosen  *)
(* value's attributes; and the key is not one of the base fields.          *)
NotOverwritten(e, j) ==
    LET n == FieldOf(j)
    IN  /\ n \notin BaseKeys
        /\ n \notin SanitisedKeys(Chosen(e, j))
        /\ \A j2 \in (j + 1)..NumOptions :
              /\ FieldOf(j2) # n
              /\ n \notin SanitisedKeys(Chosen(e, j2))

-----------------------------------------------------------------------------
(* C1: generateCombinations returns exactly c1*...*cn variants: 1 for a    *)
(* product with no options, 0 when some option has no values.              *)
C1_VariantCount ==
    Done => /\ Len(result) = CountFrom(1)
            /\ (NumOptions = 0 => Len(result) = 1)
            /\ ((\E j \in 1..NumOptions : ValueCount(j) = 0) => Len(result) = 0)

C1_Witness == Done /\ NumOptions = 3 /\ Len(result) = 12

(* C2 as stated: every variant has, for every option, a field under the    *)
(* lower-cased option name holding the label chosen on its path, whatever  *)
(* the option names and attribute keys.                                    *)
C2_Original ==
    Done => \A i \in 1..Len(result) : \A j \in 1..NumOptions :
                Get(result[i].v, FieldOf(j))
                    = Label(Chosen(result[i], j))

(* C2 amended: the field under the lower-cased option name holds the label *)
(* chosen on the path for every option whose key is not written again      *)
(* later on that path.                                                     *)
C2_OptionField ==
    Done => \A i \in 1..Len(result) : \A j \in 1..NumOptions :
                NotOverwritten(result[i], j) =>
                    /\ FieldOf(j) \in DOMAIN result[i].v
                    /\ result[i].v[FieldOf(j)]
                          = Label(Chosen(result[i], j))
                    /\ \E vi \in 1..ValueCount(j) :
                          result[i].v[FieldOf(j)]
                              = Label(product.options[j].values[vi])

C2_Witness ==
    /\ Done
    /\ \E i \in 1..Len(result) : \E j1, j2 \in 1..NumOptions :
          /\ j1 < j2
          /\ product.options[j1].name # product.options[j2].name
          /\ FieldOf(j1) = FieldOf(j2)
          /\ ~NotOverwritten(result[i], j1)
          /\ NotOverwritten(result[i], j2)
          /\ result[i].v["color"] = Str("Green")

(* The prices carried by the values on the path of entry e.                *)
PricesOnPath(e) ==
    { Chosen(e, j).props["price"].n :
        j \in { j2 \in ObjectsOnPath(e) : "price" \in DOMAIN Chosen(e, j2).props } }

(* C3: price is the maximum of the prices carried by the values on the     *)
(* variant's path, and undefined when no value on the path carries one.    *)
C3_MaxPrice ==
    Done => \A i \in 1..Len(result) :
                IF PricesOnPath(result[i]) = {}
                THEN Get(result[i].v, "price") = Undefined
                ELSE Get(result[i].v, "price") = Num(Max(PricesOnPath(result[i])))

(* The larger price comes first on the path, so the last price written     *)
(* would be the smaller one.                                               *)
C3_Witness ==
    /\ Done
    /\ \E i \in 1..Len(result) : \E j1, j2 \in ObjectsOnPath(result[i]) :
          /\ j1 < j2
          /\ Gt(Get(Chosen(result[i], j1).props, "price"),
                Get(Chosen(result[i], j2).props, "price"))
          /\ result[i].v["price"] = Chosen(result[i], j1).props["price"]

(* Every key of every override on the path of e is spelled in lower case. *)
LowerCaseKeys(e) ==
    \A j \in ObjectsOnPath(e) : \A orig \in DOMAIN Chosen(e, j).props :
        ToLower(orig) = orig

(* C4 as stated, the clause about overrides, on paths whose overrides      *)
(* spell their keys in lower case: when some value on the path carries a   *)
(* description, the variant's description is that of the first such value  *)
(* in option order, and a later one does not replace it.                   *)
C4_Original ==
    Done => \A i \in 1..Len(result) :
                LET ds == Carriers(result[i], "description")
                IN  (LowerCaseKeys(result[i]) /\ ds # {}) =>
                        Get(result[i].v, "description")
                            = Chosen(result[i], Min(ds)).props["description"]

(* C4 amended: for a product with at least one option the description is   *)
(* the base description when no value on the path has a key that           *)
(* lower-cases to description; otherwise it is what the last such value    *)
(* holds under the key description itself; when that value holds nothing   *)
(* there (its key is not in lower case) the description is undefined if    *)
(* the value belongs to the last option and the base description if not.   *)
(* The single variant of a product without options has no description.     *)
C4_LastDescription ==
    Done => \A i \in 1..Len(result) :
                LET ds == Carriers(result[i], "description")
                    held == Get(Chosen(result[i], Max(ds)).props, "description")
                IN  Get(result[i].v, "description") =
                        IF NumOptions = 0 THEN Undefined
                        ELSE IF ds = {} THEN Str(product.description)
                        ELSE IF held # Undefined THEN held
                        ELSE IF Max(ds) = NumOptions THEN Undefined
                        ELSE Str(product.description)

C4_Witness ==
    /\ Done
    /\ \E i \in 1..Len(result) :
          LET ds == Carriers(result[i], "description")
          IN  /\ Cardinality(ds) >= 2
              /\ LowerCaseKeys(result[i])
              /\ Chosen(result[i], Min(ds)).props["description"]
                    # Chosen(result[i], Max(ds)).props["description"]
              /\ result[i].v["description"]
                    = Chosen(result[i], Max(ds)).props["description"]

(* C5 as stated: for every override on the path and every key of it other  *)
(* than name and price, in any letter case, the variant holds under the    *)
(* lower-cased key the value the override holds under the original key.    *)
C5_Original ==
    Done => \A i \in 1..Len(result) : \A j \in ObjectsOnPath(result[i]) :
                \A orig \in DOMAIN Chosen(result[i], j).props :
                    ToLower(orig) \notin {"name", "price"} =>
                        Get(result[i].v, ToLower(orig))
                            = Chosen(result[i], j).props[orig]

C7_Original ==
    Done => \A i \in 1..Len(result) :
                Cardinality(ObjectsOnPath(result[i])) >= 2 =>
                    \A j \in ObjectsOnPath(result[i]) :
                        \A orig \in DOMAIN Chosen(result[i], j).props :
                            LET key == ToLower(orig)
                            IN  (key \notin {"name", "price"}
                                    /\ j = Max(Carriers(result[i], key))) =>
                                Get(result[i].v, key) = Chosen(result[i], j).props[orig]

(* C8 as stated: every variant, also that of a product without options,    *)
(* carries an id, the parent product id and name, and a description.       *)
C8_Original ==
    Done => \A i \in 1..Len(result) :
                \A key \in {"id", "parentProductId", "parentProductName", "description"} :
                    /\ key \in DOMAIN result[i].v
                    /\ result[i].v[key] # Undefined

(* C10: the variants are in nested-iteration order, first option outermost:*)
(* the variant at index i chose for option j the value at position         *)
(* floor(i / (c(j+1)*...*cn)) mod cj, and where its field is not written   *)
(* again it holds that value's label.                                      *)
C10_NestedOrder ==
    Done => \A i \in 1..Len(result) : \A j \in 1..NumOptions :
                LET pos == (((i - 1) \div CountFrom(j + 1)) % ValueCount(j)) + 1
                IN  /\ result[i].path[j] = pos
                    /\ NotOverwritten(result[i], j) =>
                          Get(result[i].v, FieldOf(j))
                              = Label(product.options[j].values[pos])

C10_Witness ==
    /\ Done
    /\ NumOptions = 3
    /\ \A j \in 1..NumOptions : ValueCount(j) >= 2
    /\ Len(result) = 12
    /\ result[8].path = <<2, 1, 2>>

-----------------------------------------------------------------------------
(* Vocabulary of the properties of main                                    *)

ConfigurationError == INPUT_FILE_PATH = "" \/ OUTPUT_DIR = ""
InputReadError == INPUT_FILE_PATH = "" \/ inputFile.kind # "ok"
OutputWriteError == ~InputReadError /\ ~outputWritable
BoundaryError == ConfigurationError \/ InputReadError \/ OutputWriteError

(* C9 as stated: when a run of main meets a boundary error (configuration, *)
(* input read, output write), an error is logged, no exception escapes     *)
(* main and no output file is written.                                     *)
C9_Original ==
    (mainPc = "returned" /\ BoundaryError) =>
        /\ errorLog # <<>>
        /\ thrown = "none"
        /\ outputFile = <<>>

====
